---- MODULE Spec2Model ----
(***************************************************************************)
(* A model of enzymemap: the BRENDA reaction-line parser                   *)
(* (helpers_brenda.extract_reaction / process_entry), the line-buffer loop *)
(* of helpers_brenda.parse_brenda, the candidate                           *)
(* builder and the cached balancing loop of make_initial, and the          *)
(* single-step / multi-step / suggestion / selection / scoring stages of   *)
(* map_group.                                                              *)
(***************************************************************************)
EXTENDS Integers, Sequences, FiniteSets, TLC

VARIABLES
    pc,             \* position in the function at hand: the stage that runs next
    idx,            \* loop variable i of the stage's "for i in df.index"
    df,             \* the table at hand, one record per row
    rule_ids_in_ec, \* enzymemap.py:115 and :134
    reactions_in_ec,\* enzymemap.py:133
    counts,         \* enzymemap.py:164, rule id -> <<count, len(l)>>
    failure,        \* the call whose exception left map_group, or "none"
    db_rules,       \* the rule library: rule id -> key of its equivalence group
    calls,          \* history: the helper calls made so far
    got,            \* history: per entry, the stage whose call returned a mapping
    compound_to_smiles, \* make_initial: compound name -> list of structures
    cached,         \* make_initial: RXN_TEXT -> balanced reactions
    balanced_rxn_list, \* make_initial: the lists of the rows handled so far
    desc,           \* process_entry: the description of the line at hand
    org_nums,       \* process_entry: the organism numbers of the line at hand
    natural,        \* process_entry: the line is under NATURAL_SUBSTRATE_PRODUCT
    reactions,      \* process_entry: the records emitted
    lines,          \* parse_brenda: the lines of the file
    new_line,       \* parse_brenda: the number of the line fp.readline() gave
    buff,           \* parse_brenda: the numbers of the lines in the buffer
    passed          \* history: the buffers handed to process_entry so far

\* the variables of map_group besides pc, idx and df
mapVars == <<rule_ids_in_ec, reactions_in_ec, counts, failure, db_rules, calls, got>>
\* the variables of make_initial besides pc, idx and df
initialVars == <<compound_to_smiles, cached, balanced_rxn_list>>
\* the variables of process_entry besides pc
parseVars == <<desc, org_nums, natural, reactions>>

\* the variables of parse_brenda besides pc and df
brendaVars == <<lines, new_line, buff, passed>>

vars == <<pc, idx, df, mapVars, initialVars, parseVars, brendaVars>>

----------------------------------------------------------------------------
(* Bounds of the model *)

\* number of entries (rows) of the enzyme group handed to map_group
NumEntries == 2
\* number of rows of the rule library db_rules
NumRules == 2
\* largest number of mapped candidates the table of one group holds
MaxMapped == 2
\* largest number of structures one compound name resolves to
MaxVariants == 2
\* largest number of names in a SUBSTRATES or PRODUCTS list
MaxNames == 2
\* number of rows of the table the balancing loop runs over
NumRows == 2
\* largest number of reactions correct_reaction returns
MaxBalanced == 2
\* largest number of characters of a reaction line's description
MaxDesc == 5

----------------------------------------------------------------------------
(* Values *)

\* the rule id of isomerase reactions, which have no library row
IsomeraseId == -1
\* Python's None inside a rule_ids list (filtered by "item != None")
NoneId == 0
\* None as the value of the source and step columns
NoneStr == "None"

Entries == 1..NumEntries
\* the index of db_rules
RuleIds == 1..NumRules

SeqsUpTo(S, n) == UNION {[1..k -> S] : k \in 0..n}

\* l.count(x)
ListCount(l, x) == Cardinality({j \in DOMAIN l : l[j] = x})

Range(s) == {s[j] : j \in DOMAIN s}

----------------------------------------------------------------------------
(* helpers_map and helpers_rdkit: the collaborators map_group calls *)

\* helpers_map.get_groups(db_rules): the list of the library's equivalence
\* groups, each a set of rule ids; the groups partition the library's index.
get_groups(rules) ==
    LET keys == {rules[r] : r \in DOMAIN rules}
        RECURSIVE Build(_)
        Build(k) ==
            IF k > NumRules THEN <<>>
            ELSE (IF k \in keys
                  THEN << {r \in DOMAIN rules : rules[r] = k} >>
                  ELSE <<>>) \o Build(k + 1)
    IN  Build(1)

\* The libraries the model is run on, as rule id -> group key: every rule a
\* group of its own, and the rules grouped in pairs (1 with 2, 3 with 4, ...).
Libraries ==
    {[r \in RuleIds |-> r], [r \in RuleIds |-> (r + 1) \div 2]}

\* helpers_map.map(rxns, library, single): every result the mapper can give.
\* Four aligned lists, one position per mapped candidate; a rule id is an id
\* of the library it was given, -1 for an isomerase reaction (no library
\* row), or None.
MapOutcomes(rxns, lib, single, most) ==
    {[rxns        |-> [j \in 1..Len(ids) |-> "mapped"],
      rules       |-> [j \in 1..Len(ids) |-> IF ids[j] \in lib THEN "smarts" ELSE NoneStr],
      rule_ids    |-> ids,
      individuals |-> [j \in 1..Len(ids) |-> IF single THEN "one" ELSE "steps"]]
        : ids \in SeqsUpTo(lib \cup {IsomeraseId, NoneId}, most)}

\* helpers_map.suggest_corrections(...): a list of suggested reactions (an
\* exception is the caller's other case)
SuggestOutcomes(uncorrected) == {<<>>, <<"suggested">>}

\* the sub-list of s at the positions K, in order
RECURSIVE SubList(_, _, _)
SubList(s, K, j) ==
    IF j > Len(s) THEN <<>>
    ELSE (IF j \in K THEN <<s[j]>> ELSE <<>>) \o SubList(s, K, j + 1)

\* helpers_rdkit.select_best(mapped_rxns, rules, rule_ids, individuals): the
\* candidates with the fewest bond edits, ties kept: a non-empty selection of
\* positions, applied to the four lists alike.
SelectOutcomes(e) ==
    {[e EXCEPT !.mapped_rxns = SubList(e.mapped_rxns, K, 1),
               !.rules = SubList(e.rules, K, 1),
               !.rule_ids = SubList(e.rule_ids, K, 1),
               !.individuals = SubList(e.individuals, K, 1)]
        : K \in (SUBSET (1..Len(e.mapped_rxns))) \ {{}}}

----------------------------------------------------------------------------
(* map_group: the table and the three mapping stages *)

\* enzymemap.py:89-96: the columns map_group keeps and the six it adds
NewEntry(balanced, uncorrected, provenance) ==
    [uncorrected_rxns |-> uncorrected,
     balanced_rxns    |-> balanced,
     provenance       |-> provenance,
     source           |-> NoneStr,
     step             |-> NoneStr,
     mapped_rxns      |-> <<>>,
     rules            |-> <<>>,
     rule_ids         |-> <<>>,
     individuals      |-> <<>>,
     quality          |-> <<>>]

\* [item for item in sublist if item != None]
NotNone(s) == SelectSeq(s, LAMBDA x : x # NoneId)

\* [item for sublist in df['rule_ids'].values for item in sublist if item != None]
RECURSIVE FlatRuleIds(_, _)
FlatRuleIds(d, i) ==
    IF i > NumEntries THEN <<>>
    ELSE NotNone(d[i].rule_ids) \o FlatRuleIds(d, i + 1)

\* [item for sublist in df['mapped_rxns'].values for item in sublist if item != None]
RECURSIVE FlatReactions(_, _)
FlatReactions(d, i) ==
    IF i > NumEntries THEN <<>>
    ELSE d[i].mapped_rxns \o FlatReactions(d, i + 1)

\* list(set(...)) of the rule ids of the table
RuleIdsInEc(d) == Range(FlatRuleIds(d, 1))

\* db_rules.loc[ids]: the library rows with these ids
Loc(ids) == ids \cap RuleIds

\* enzymemap.py:103
SingleEligible(e) == Len(e.balanced_rxns) > 0

\* line 118 without its test of mapped_rxns
MultiEligible_NoMappedTest(e) == Len(e.balanced_rxns) > 0

\* enzymemap.py:118
MultiEligible(e) == Len(e.balanced_rxns) > 0 /\ Len(e.mapped_rxns) = 0

\* lines 119-122 reading the rule ids of the table as it stands
MultiLibrary_Live(ids) ==
    IF Cardinality(RuleIdsInEc(df)) = 0 THEN RuleIds ELSE Loc(RuleIdsInEc(df))

\* enzymemap.py:119-122: the library the multi-step mapper is given
MultiLibrary(ids) == IF Cardinality(ids) = 0 THEN RuleIds ELSE Loc(ids)

\* enzymemap.py:139
SuggestEligible(e) == Len(e.mapped_rxns) = 0

\* line 145 with the whole library
SuggestLibrary_Full(ids) == RuleIds

\* enzymemap.py:145: the library the mapper is given for suggested reactions
SuggestLibrary(ids) == Loc(ids)

\* lines 105-111 without the test of len(rxns)
Assign_Unconditional(e, source, step, out) ==
    [e EXCEPT !.source = source, !.step = step,
              !.mapped_rxns = out.rxns, !.rules = out.rules,
              !.rule_ids = out.rule_ids, !.individuals = out.individuals]

\* enzymemap.py:105-111, 123-129, 146-152: the result is stored when non-empty
Assign(e, source, step, out) ==
    IF Len(out.rxns) > 0
    THEN [e EXCEPT !.source = source, !.step = step,
                   !.mapped_rxns = out.rxns, !.rules = out.rules,
                   !.rule_ids = out.rule_ids, !.individuals = out.individuals]
    ELSE e

\* the table has room for the mapper's result (the bound MaxMapped)
RECURSIVE NumMapped(_, _)
NumMapped(d, i) ==
    IF i > NumEntries THEN 0 ELSE Len(d[i].mapped_rxns) + NumMapped(d, i + 1)

Room(d) == MaxMapped - NumMapped(d, 1)

Call(fn, i, single, lib) == [fn |-> fn, entry |-> i, single |-> single, lib |-> lib]

Gained(i, stage, out) ==
    IF Len(out.rxns) > 0 THEN [got EXCEPT ![i] = @ \cup {stage}] ELSE got

\* enzymemap.py:101-111, one iteration
SingleStep ==
    /\ pc = "single" /\ idx <= NumEntries
    /\ IF SingleEligible(df[idx])
       THEN \E out \in MapOutcomes(df[idx].balanced_rxns, RuleIds, TRUE, Room(df)) :
               /\ df' = [df EXCEPT ![idx] = Assign(@, "direct", "single", out)]
               /\ calls' = calls \cup {Call("map", idx, TRUE, RuleIds)}
               /\ got' = Gained(idx, "single", out)
       ELSE UNCHANGED <<df, calls, got>>
    /\ idx' = idx + 1
    /\ UNCHANGED <<pc, rule_ids_in_ec, reactions_in_ec, counts, failure, db_rules>>
    /\ UNCHANGED <<initialVars, parseVars, brendaVars>>

\* enzymemap.py:115, after the single-step loop
BeginMulti ==
    /\ pc = "single" /\ idx > NumEntries
    /\ rule_ids_in_ec' = RuleIdsInEc(df)
    /\ pc' = "multi" /\ idx' = 1
    /\ UNCHANGED <<df, reactions_in_ec, counts, failure, db_rules, calls, got>>
    /\ UNCHANGED <<initialVars, parseVars, brendaVars>>

\* enzymemap.py:116-129, one iteration
MultiStep ==
    /\ pc = "multi" /\ idx <= NumEntries
    /\ IF MultiEligible(df[idx])
       THEN LET lib == MultiLibrary(rule_ids_in_ec)
            IN  \E out \in MapOutcomes(df[idx].balanced_rxns, lib, FALSE, Room(df)) :
                   /\ df' = [df EXCEPT ![idx] = Assign(@, "direct", "multi", out)]
                   /\ calls' = calls \cup {Call("map", idx, FALSE, lib)}
                   /\ got' = Gained(idx, "multi", out)
       ELSE UNCHANGED <<df, calls, got>>
    /\ idx' = idx + 1
    /\ UNCHANGED <<pc, rule_ids_in_ec, reactions_in_ec, counts, failure, db_rules>>
    /\ UNCHANGED <<initialVars, parseVars, brendaVars>>

\* enzymemap.py:133-136: the aggregates of the suggestion stage and the
\* templates, built when the group has a mapped reaction; the call of
\* make_templates_for_suggestions is not inside a try
BeginSuggest ==
    /\ pc = "multi" /\ idx > NumEntries
    /\ reactions_in_ec' = FlatReactions(df, 1)
    /\ rule_ids_in_ec' = RuleIdsInEc(df)
    /\ idx' = 1
    /\ IF Len(FlatReactions(df, 1)) > 0
       THEN /\ calls' = calls \cup {Call("make_templates_for_suggestions", 0, TRUE, {})}
            /\ \E raised \in BOOLEAN :
                  IF raised
                  THEN pc' = "failed" /\ failure' = "make_templates_for_suggestions"
                  ELSE pc' = "suggest" /\ failure' = failure
       ELSE pc' = "select" /\ UNCHANGED <<calls, failure>>
    /\ UNCHANGED <<df, counts, db_rules, got>>
    /\ UNCHANGED <<initialVars, parseVars, brendaVars>>

\* enzymemap.py:137-152, one iteration: suggest_corrections is inside a try
\* whose handler gives the empty list; the mapper call that follows is not
SuggestStep ==
    /\ pc = "suggest" /\ idx <= NumEntries
    /\ IF SuggestEligible(df[idx])
       THEN \E raised \in BOOLEAN :
            \E sug \in SuggestOutcomes(df[idx].uncorrected_rxns) :
               LET rxns == IF raised THEN <<>> ELSE sug
                   lib  == SuggestLibrary(rule_ids_in_ec)
                   c1   == Call("suggest_corrections", idx, TRUE, {})
               IN  IF Len(rxns) > 0
                   THEN /\ calls' = calls \cup {c1, Call("map_suggested", idx, TRUE, lib)}
                        /\ \E mapraised \in BOOLEAN :
                              IF mapraised
                              THEN /\ pc' = "failed" /\ failure' = "map_suggested"
                                   /\ idx' = idx
                                   /\ UNCHANGED <<df, got>>
                              ELSE \E out \in MapOutcomes(rxns, lib, TRUE, Room(df)) :
                                   /\ df' = [df EXCEPT ![idx] =
                                                Assign(@, "suggested", "single", out)]
                                   /\ got' = Gained(idx, "suggested", out)
                                   /\ idx' = idx + 1
                                   /\ UNCHANGED <<pc, failure>>
                   ELSE /\ calls' = calls \cup {c1}
                        /\ idx' = idx + 1
                        /\ UNCHANGED <<df, got, pc, failure>>
       ELSE /\ idx' = idx + 1
            /\ UNCHANGED <<df, calls, got, pc, failure>>
    /\ UNCHANGED <<rule_ids_in_ec, reactions_in_ec, counts, db_rules>>
    /\ UNCHANGED <<initialVars, parseVars, brendaVars>>

\* enzymemap.py:137, the loop is over
BeginSelect ==
    /\ pc = "suggest" /\ idx > NumEntries
    /\ pc' = "select" /\ idx' = 1
    /\ UNCHANGED <<df, rule_ids_in_ec, reactions_in_ec, counts, failure,
                   db_rules, calls, got>>
    /\ UNCHANGED <<initialVars, parseVars, brendaVars>>

----------------------------------------------------------------------------
(* map_group: selection of the best candidates and quality scoring *)

\* enzymemap.py:158
SelectEligible(e) == Len(e.mapped_rxns) > 0

\* enzymemap.py:156-159, one iteration
SelectStep ==
    /\ pc = "select" /\ idx <= NumEntries
    /\ IF SelectEligible(df[idx])
       THEN \E e \in SelectOutcomes(df[idx]) : df' = [df EXCEPT ![idx] = e]
       ELSE UNCHANGED df
    /\ idx' = idx + 1
    /\ UNCHANGED <<pc, rule_ids_in_ec, reactions_in_ec, counts, failure,
                   db_rules, calls, got>>
    /\ UNCHANGED <<initialVars, parseVars, brendaVars>>

\* enzymemap.py:86-87: the library's groups and the group of isomerase reactions
Groups(rules) == get_groups(rules) \o << {IsomeraseId} >>

\* lines 166-169 counting one member of the group only
GroupCount_OneMember(l, group) ==
    IF group = {} THEN 0 ELSE ListCount(l, CHOOSE y \in group : TRUE)

\* enzymemap.py:166-169: the sum of l.count(x) over the members x of a group
RECURSIVE GroupCount(_, _)
GroupCount(l, group) ==
    IF group = {} THEN 0
    ELSE LET x == CHOOSE y \in group : TRUE
         IN  ListCount(l, x) + GroupCount(l, group \ {x})

\* enzymemap.py:170: the test that decides whether a group is given a score
Occurs(count) == count # 0

\* line 172 dividing by the number of distinct rule ids
Ratio_Distinct(count, l) == <<count, Cardinality(Range(l))>>

\* enzymemap.py:172: count/len(l), kept as the pair <<count, len(l)>>
Ratio(count, l) == <<count, Len(l)>>

\* enzymemap.py:164-172: counts after the first k groups of the list
RECURSIVE CountsUpTo(_, _, _)
CountsUpTo(groups, l, k) ==
    IF k = 0 THEN <<>>
    ELSE LET prev  == CountsUpTo(groups, l, k - 1)
             count == GroupCount(l, groups[k])
         IN  IF Occurs(count)
             THEN [x \in (DOMAIN prev) \cup groups[k] |->
                      IF x \in groups[k] THEN Ratio(count, l) ELSE prev[x]]
             ELSE prev

\* enzymemap.py:173: [counts[r] for r in df['rule_ids'][i]]
QualityOf(c, e) == [j \in 1..Len(e.rule_ids) |-> c[e.rule_ids[j]]]

\* enzymemap.py:163-173: a rule id without an entry in counts is a KeyError
Score ==
    /\ pc = "select" /\ idx > NumEntries
    /\ LET l == FlatRuleIds(df, 1)
           c == CountsUpTo(Groups(db_rules), l, Len(Groups(db_rules)))
       IN  /\ counts' = c
           /\ IF \A i \in Entries : Range(df[i].rule_ids) \subseteq DOMAIN c
              THEN /\ df' = [i \in Entries |->
                               [df[i] EXCEPT !.quality = QualityOf(c, df[i])]]
                   /\ pc' = "final" /\ failure' = failure
              ELSE /\ pc' = "failed" /\ failure' = "quality"
                   /\ df' = df
    /\ UNCHANGED <<idx, rule_ids_in_ec, reactions_in_ec, db_rules, calls, got>>
    /\ UNCHANGED <<initialVars, parseVars, brendaVars>>

----------------------------------------------------------------------------
(* The specification of map_group *)

\* the tables map_group is given: each entry with or without balanced reactions
InputTables ==
    {[i \in Entries |->
        NewEntry(IF b[i] THEN <<"balanced">> ELSE <<>>, <<"candidate">>, i)]
        : b \in [Entries -> BOOLEAN]}

\* the variables of the functions that are not running
IdleInitial == compound_to_smiles = <<>> /\ cached = <<>> /\ balanced_rxn_list = <<>>
IdleParse == desc = <<>> /\ org_nums = <<>> /\ natural = FALSE /\ reactions = <<>>
IdleBrenda == lines = <<>> /\ new_line = 1 /\ buff = <<>> /\ passed = <<>>
IdleMap ==
    /\ rule_ids_in_ec = {} /\ reactions_in_ec = <<>> /\ counts = <<>>
    /\ failure = "none" /\ db_rules = <<>> /\ calls = {} /\ got = <<>>

Init ==
    /\ IdleInitial /\ IdleParse /\ IdleBrenda
    /\ pc = "single" /\ idx = 1
    /\ df \in InputTables
    /\ db_rules \in Libraries
    /\ rule_ids_in_ec = {}
    /\ reactions_in_ec = <<>>
    /\ counts = <<>>
    /\ failure = "none"
    /\ calls = {}
    /\ got = [i \in Entries |-> {}]

Next ==
    \/ SingleStep
    \/ BeginMulti
    \/ MultiStep
    \/ BeginSuggest
    \/ SuggestStep
    \/ BeginSelect
    \/ SelectStep
    \/ Score

Spec == Init /\ [][Next]_vars

----------------------------------------------------------------------------
(* Properties of map_group *)

\* the calls made for entry i
CallsOf(i) == {c \in calls : c.entry = i}

\* the rule ids (None apart) of the entries whose mapping came from stage s
IdsGotIn(stages) ==
    UNION {Range(NotNone(df[i].rule_ids)) : i \in {k \in Entries : got[k] \cap stages # {}}}

\* C2: an entry the single-step mapper mapped is never handed to the
\* multi-step mapper or to the suggestion path, and keeps source 'direct' and
\* step 'single'; an entry the multi-step mapper mapped is never handed to the
\* suggestion path; no entry is mapped by two stages.
C2_MonotonicFallback ==
    \A i \in Entries :
        /\ "single" \in got[i] =>
              /\ \A c \in CallsOf(i) : c.fn = "map" /\ c.single
              /\ df[i].source = "direct" /\ df[i].step = "single"
        /\ "multi" \in got[i] =>
              /\ \A c \in CallsOf(i) : c.fn = "map"
              /\ df[i].source = "direct" /\ df[i].step = "multi"
        /\ Cardinality(got[i]) <= 1

\* C2 witness: the three stages are over, one entry was mapped in single-step
\* mode and another entry went through multi-step and suggestion
C2_Witness ==
    /\ pc = "final"
    /\ \E i, j \in Entries :
          /\ "single" \in got[i]
          /\ \E c \in CallsOf(j) : c.fn = "map" /\ ~c.single
          /\ \E c \in CallsOf(j) : c.fn = "suggest_corrections"

C6_SuggestionFailuresContained ==
    failure \notin {"make_templates_for_suggestions", "map_suggested"}

\* C7 (as claimed): while the suggestion stage runs, an entry with source
\* 'suggested' has step 'single' and only rule ids that a directly mapped entry
\* of the group has.
C7_NoNewRuleId ==
    pc = "suggest" =>
        \A i \in Entries :
            df[i].source = "suggested" =>
                /\ df[i].step = "single"
                /\ Range(NotNone(df[i].rule_ids)) \subseteq IdsGotIn({"single", "multi"})

\* C7 (amended): suggested reactions are mapped in single-step mode against
\* the library rows of the ids the direct mappings gave; an entry with source
\* 'suggested' has step 'single', and every library rule id it has is one a
\* directly mapped entry has; the ids it can add are -1 and None only.
C7_NoNewLibraryRuleId ==
    pc = "suggest" =>
        /\ \A c \in calls :
              c.fn = "map_suggested" =>
                  c.single /\ c.lib = IdsGotIn({"single", "multi"}) \cap RuleIds
        /\ \A i \in Entries :
              df[i].source = "suggested" =>
                  /\ df[i].step = "single"
                  /\ Range(df[i].rule_ids) \cap RuleIds
                        \subseteq IdsGotIn({"single", "multi"})

\* C7 witness: an entry was mapped from a suggestion with a library rule
C7_Witness ==
    /\ pc = "suggest"
    /\ \E i \in Entries :
          /\ df[i].source = "suggested"
          /\ Range(df[i].rule_ids) \cap RuleIds # {}

\* C8: in the table handed to the Finalizer, an entry that no stage mapped has
\* source and step None, empty mapped_rxns, rules, rule_ids, individuals and
\* quality, and the columns it came with.
C8_UnmappedRetained ==
    pc = "final" =>
        /\ DOMAIN df = Entries
        /\ \A i \in Entries :
              got[i] = {} =>
                  df[i] = NewEntry(df[i].balanced_rxns, <<"candidate">>, i)

\* C8 witness: the table reaches the Finalizer with an entry that the
\* single-step mapper, the multi-step mapper and the suggestion all failed on,
\* and with an entry that was mapped
C8_Witness ==
    /\ pc = "final"
    /\ \E i, j \in Entries :
          /\ got[i] = {} /\ got[j] # {}
          /\ \E c \in CallsOf(i) : c.fn = "map" /\ c.single
          /\ \E c \in CallsOf(i) : c.fn = "map" /\ ~c.single
          /\ \E c \in CallsOf(i) : c.fn = "suggest_corrections"

\* two rule ids of one equivalence group: library rules with the same group
\* key; -1 is a group of its own
SameGroup(r, q) ==
    \/ r = IsomeraseId /\ q = IsomeraseId
    \/ r \in RuleIds /\ q \in RuleIds /\ db_rules[r] = db_rules[q]

\* the occurrences in l of the rule ids of r's group
GroupOccurrences(l, r) == Cardinality({k \in DOMAIN l : SameGroup(l[k], r)})

\* the groups (of the library, and {-1}) with an occurrence in l
OccurringGroups(l) ==
    {{q \in RuleIds \cup {IsomeraseId} : SameGroup(q, l[k])} : k \in DOMAIN l}

RECURSIVE SumScores(_)
SumScores(gs) ==
    IF gs = {} THEN 0
    ELSE LET g == CHOOSE h \in gs : TRUE
         IN  counts[CHOOSE x \in g : TRUE][1] + SumScores(gs \ {g})

\* the scoring step has computed counts
Scored == pc = "final" \/ (pc = "failed" /\ failure = "quality")

\* C3: once the scores are computed for a group with a rule-id occurrence, the
\* scores of the groups that occur, one per group, are fractions of the total
\* number of occurrences whose numerators add up to that total (they sum to 1).
C3_QualitySumsToOne ==
    LET l == FlatRuleIds(df, 1)
    IN  (Scored /\ Len(l) > 0) =>
            /\ \A g \in OccurringGroups(l) : \A x \in g :
                  x \in DOMAIN counts /\ counts[x][2] = Len(l)
            /\ SumScores(OccurringGroups(l)) = Len(l)

\* C3 witness: scores computed for a group in which two equivalence groups occur
C3_Witness ==
    /\ Scored
    /\ Cardinality(OccurringGroups(FlatRuleIds(df, 1))) = 2

\* C10: after scoring, the score at each position of each rule_ids list is
\* (occurrences of the ids of that id's equivalence group) over (all
\* occurrences), counted on the lists as selection left them; it is in (0, 1];
\* ids of groups without an occurrence have no score.
C10_QualityIsGroupFrequency ==
    LET l == FlatRuleIds(df, 1)
    IN  pc = "final" =>
            /\ \A i \in Entries :
                  /\ Len(df[i].quality) = Len(df[i].rule_ids)
                  /\ \A j \in DOMAIN df[i].rule_ids :
                        /\ df[i].quality[j] =
                              <<GroupOccurrences(l, df[i].rule_ids[j]), Len(l)>>
                        /\ 0 < df[i].quality[j][1]
                        /\ df[i].quality[j][1] <= df[i].quality[j][2]
            /\ \A x \in DOMAIN counts : GroupOccurrences(l, x) > 0

\* C10 witness: a scored entry with two different rule ids of one group, next
\* to an entry with another group's id
C10_Witness ==
    /\ pc = "final"
    /\ \E i \in Entries :
          /\ Len(df[i].rule_ids) = 2
          /\ df[i].rule_ids[1] # df[i].rule_ids[2]
          /\ SameGroup(df[i].rule_ids[1], df[i].rule_ids[2])

\* the three mapping stages of map_group
MappingStages == {"single", "multi", "suggest"}

\* the six mapping fields of an entry
MappingFields(e) ==
    <<e.source, e.step, e.mapped_rxns, e.rules, e.rule_ids, e.individuals>>

\* the fields of every entry agree at a point of the mapping stages
FieldsConsistent ==
    pc \in MappingStages =>
        \A i \in Entries :
            /\ (df[i].mapped_rxns # <<>>) <=> (df[i].source # NoneStr)
            /\ (df[i].source # NoneStr) <=> (df[i].step # NoneStr)
            /\ <<df[i].source, df[i].step>> \in
                  {<<NoneStr, NoneStr>>, <<"direct", "single">>,
                   <<"direct", "multi">>, <<"suggested", "single">>}
            /\ df[i].balanced_rxns = <<>> =>
                  <<df[i].source, df[i].step>> \in
                      {<<NoneStr, NoneStr>>, <<"suggested", "single">>}

\* a step of a mapping stage in which no call returned a mapping leaves the
\* six fields of every entry as they were
FailedAttemptKeepsFields ==
    (pc \in MappingStages /\ got' = got) =>
        \A i \in Entries : MappingFields(df'[i]) = MappingFields(df[i])

\* C13: at every point of the three mapping stages and for every entry,
\* mapped_rxns is non-empty iff source is not None iff step is not None;
\* (source, step) is (None, None), ('direct', 'single'), ('direct', 'multi')
\* or ('suggested', 'single'); an entry with an empty balanced list is
\* (None, None) or ('suggested', 'single'); and an attempt in which the mapper
\* or the suggestion returned nothing leaves the six mapping fields unchanged.
C13_MappingFields == [](FieldsConsistent) /\ [][FailedAttemptKeepsFields]_vars

\* C13 witness: in the suggestion stage, an entry whose single-step attempt
\* failed and whose multi-step attempt succeeded, next to an entry without
\* balanced reactions that was mapped from a suggestion
C13_Witness ==
    /\ pc = "suggest"
    /\ \E i, j \in Entries :
          /\ <<df[i].source, df[i].step>> = <<"direct", "multi">>
          /\ \E c \in CallsOf(i) : c.fn = "map" /\ c.single
          /\ df[j].balanced_rxns = <<>>
          /\ <<df[j].source, df[j].step>> = <<"suggested", "single">>

\* C14 (as claimed): the quality-scoring step never fails: it divides by no
\* zero, also for a group in which no entry was mapped, and it gives every
\* entry a quality list as long as its rule_ids list, with a score for every
\* value the mapper can place there: a library rule id, the isomerase id -1
\* and the None placeholder.
C14_ScoringNeverFails ==
    /\ failure # "quality"
    /\ \A x \in DOMAIN counts : counts[x][2] # 0
    /\ pc = "final" =>
          \A i \in Entries : Len(df[i].quality) = Len(df[i].rule_ids)

----------------------------------------------------------------------------
(* make_initial: the candidate reactions of a row (enzymemap.py:41-48) *)

\* the compound names of the model; "H+" resolves to hydrogen structures
Names == {"A", "H+"}

\* a structure is <<name, k>>: the k-th structure the name resolves to
IsHydrogen(v) == v[1] = "H+"

\* helpers_resolve_smiles: the dictionaries name -> list of structures; a name
\* may resolve to no structure
Resolutions ==
    {[n \in Names |-> [k \in 1..len[n] |-> <<n, k>>]]
        : len \in [Names -> 0..MaxVariants]}

RECURSIVE Concat(_)
Concat(ss) == IF ss = <<>> THEN <<>> ELSE Head(ss) \o Concat(Tail(ss))

\* zip(*lists) in the place of itertools.product(*lists)
RECURSIVE Product_Zip(_)
Product_Zip(lists) ==
    IF lists = <<>> THEN << <<>> >>
    ELSE LET rest == Product_Zip(Tail(lists))
             n    == IF Len(Head(lists)) < Len(rest) THEN Len(Head(lists)) ELSE Len(rest)
         IN  [j \in 1..n |-> <<Head(lists)[j]>> \o rest[j]]

\* list(itertools.product(*lists)): one tuple per choice of one element of
\* each list, the last list varying fastest; the product of no list is [()]
RECURSIVE Product(_)
Product(lists) ==
    IF lists = <<>> THEN << <<>> >>
    ELSE LET rest == Product(Tail(lists))
         IN  Concat([j \in 1..Len(Head(lists)) |->
                        [k \in 1..Len(rest) |-> <<Head(lists)[j]>> \o rest[k]]])

\* helpers_rdkit.put_h_last(r): each side of the reaction with its hydrogens
\* moved behind the other structures
put_h_last(r) ==
    [s \in 1..2 |->
        SelectSeq(r[s], LAMBDA v : ~IsHydrogen(v)) \o SelectSeq(r[s], IsHydrogen)]

\* enzymemap.py:43-44: the structure lists of the names of one side; a joined
\* side "x.y" is kept as the tuple <<x, y>>
SideChoices(cts, names) == Product([j \in 1..Len(names) |-> cts[names[j]]])

\* enzymemap.py:43-46: the candidates of one row; "reacs>>prods" is kept as
\* the pair <<reacs, prods>>
Candidates(cts, row) ==
    LET reacs    == SideChoices(cts, row.SUBSTRATES)
        prods    == SideChoices(cts, row.PRODUCTS)
        reaction == Product(<<reacs, prods>>)
    IN  [j \in 1..Len(reaction) |-> put_h_last(reaction[j])]

\* enzymemap.py:42-48, one iteration and the assignment of the column
BuildCandidates ==
    /\ pc = "candidates" /\ idx <= Len(df)
    /\ df' = [df EXCEPT ![idx].POSSIBLE_RXNS = Candidates(compound_to_smiles, df[idx])]
    /\ idx' = idx + 1
    /\ UNCHANGED <<pc, mapVars, initialVars, parseVars, brendaVars>>

\* the rows of the table: the name lists extract_reaction can give
NameLists == SeqsUpTo(Names, MaxNames)

InitCandidates ==
    /\ IdleMap /\ IdleParse /\ IdleBrenda
    /\ pc = "candidates" /\ idx = 1
    /\ compound_to_smiles \in Resolutions
    /\ cached = <<>> /\ balanced_rxn_list = <<>>
    /\ df \in {<< [SUBSTRATES |-> s, PRODUCTS |-> p, POSSIBLE_RXNS |-> <<>>] >>
                : s \in NameLists, p \in NameLists}

SpecCandidates == InitCandidates /\ [][BuildCandidates]_vars

\* the product of the numbers of structures of the names of a list
RECURSIVE LengthProduct(_, _)
LengthProduct(cts, names) ==
    IF names = <<>> THEN 1
    ELSE Len(cts[Head(names)]) * LengthProduct(cts, Tail(names))

----------------------------------------------------------------------------
(* make_initial: correcting and balancing with the cache (enzymemap.py:54-66) *)

\* the equation texts of the table
Texts == {"t1", "t2"}

\* the reactions correct_reaction can return, as it writes them: hydrogen first
Uncanonical(k) == << << <<"H+", 1>>, <<"A", k>> >>, << <<"A", k>> >> >>

\* helpers_rdkit.correct_reaction(possible, text, ...): every list it can give
CorrectOutcomes(possible, text) ==
    SeqsUpTo({Uncanonical(k) : k \in 1..MaxBalanced}, MaxBalanced)

\* line 59 with a cache that never hits
CacheHit_Never(c, text) == FALSE

\* enzymemap.py:59: "RXN_TEXT not in cached" is its negation
CacheHit(c, text) == text \in DOMAIN c

\* enzymemap.py:62: cached[text] = rxns
CachePut(c, text, rxns) ==
    [t \in (DOMAIN c) \cup {text} |-> IF t = text THEN rxns ELSE c[t]]

\* enzymemap.py:57-65, one iteration
BalanceStep ==
    /\ pc = "balance" /\ idx <= Len(df)
    /\ LET text == df[idx].RXN_TEXT
       IN  IF ~CacheHit(cached, text)
           THEN \E out \in CorrectOutcomes(df[idx].POSSIBLE_RXNS, text) :
                   LET rxns == [j \in 1..Len(out) |-> put_h_last(out[j])]
                   IN  /\ cached' = CachePut(cached, text, rxns)
                       /\ balanced_rxn_list' = Append(balanced_rxn_list, rxns)
                       /\ calls' = calls \cup {idx}
           ELSE /\ balanced_rxn_list' = Append(balanced_rxn_list, cached[text])
                /\ UNCHANGED <<cached, calls>>
    /\ idx' = idx + 1
    /\ UNCHANGED <<pc, df, compound_to_smiles, parseVars, brendaVars>>
    /\ UNCHANGED <<rule_ids_in_ec, reactions_in_ec, counts, failure, db_rules, got>>

\* enzymemap.py:66: df['BALANCED_RXNS'] = balanced_rxn_list
AssignBalanced ==
    /\ pc = "balance" /\ idx > Len(df)
    /\ df' = [i \in 1..Len(df) |->
                [df[i] EXCEPT !.BALANCED_RXNS = balanced_rxn_list[i]]]
    /\ pc' = "balanced"
    /\ UNCHANGED <<idx, mapVars, initialVars, parseVars, brendaVars>>

\* The tables of the loop: rows of one RXN_TEXT come from one reaction line
\* text, so they have the same name lists and the same candidates.
InitBalance ==
    /\ IdleMap /\ IdleParse /\ IdleBrenda
    /\ pc = "balance" /\ idx = 1
    /\ compound_to_smiles = <<>>
    /\ cached = <<>> /\ balanced_rxn_list = <<>>
    /\ \E text \in [1..NumRows -> Texts] :
       \E possible \in [Texts -> {<<>>, <<put_h_last(Uncanonical(1))>>}] :
          df = [i \in 1..NumRows |->
                  [RXN_TEXT |-> text[i], POSSIBLE_RXNS |-> possible[text[i]],
                   BALANCED_RXNS |-> <<>>]]

NextBalance == BalanceStep \/ AssignBalanced

SpecBalance == InitBalance /\ [][NextBalance]_vars

\* C1: after the loop, two rows with the same RXN_TEXT have the same
\* BALANCED_RXNS list, whatever correct_reaction returned.
C1_CacheCorrectness ==
    pc = "balanced" =>
        \A i, j \in 1..Len(df) :
            df[i].RXN_TEXT = df[j].RXN_TEXT =>
                df[i].BALANCED_RXNS = df[j].BALANCED_RXNS

\* C1 witness: two rows share a text; correct_reaction was called for the
\* first, gave a non-empty list, and the second took its list from the cache
C1_Witness ==
    /\ pc = "balanced"
    /\ \E i, j \in 1..Len(df) :
          /\ i < j
          /\ df[i].RXN_TEXT = df[j].RXN_TEXT
          /\ df[i].BALANCED_RXNS # <<>>
          /\ i \in calls /\ j \notin calls

----------------------------------------------------------------------------
(* helpers_brenda: extract_reaction and the reaction lines of process_entry *)

\* A text is a sequence of characters. The characters of the model: a letter
\* of a compound name, the blank, "=", "+", "?" and a digit. Without "{" no
\* text has a reversibility tag (lines 144-151 give "?"). The texts over this
\* alphabet have none of the NAD spellings lines 153-207 and 425-451 rewrite.
Alphabet == {"a", " ", "=", "+", "?", "2"}

Digits == {"0", "1", "2", "3", "4", "5", "6", "7", "8", "9"}

DigitValue(c) ==
    CASE c = "0" -> 0 [] c = "1" -> 1 [] c = "2" -> 2 [] c = "3" -> 3
      [] c = "4" -> 4 [] c = "5" -> 5 [] c = "6" -> 6 [] c = "7" -> 7
      [] c = "8" -> 8 [] c = "9" -> 9

\* the pattern occurs in s at position k
OccursAt(s, pat, k) ==
    /\ k >= 1 /\ k + Len(pat) - 1 <= Len(s)
    /\ \A j \in 1..Len(pat) : s[k + j - 1] = pat[j]

\* the position of the leftmost occurrence of pat in s, or 0
Find(s, pat) ==
    IF \E k \in 1..Len(s) : OccursAt(s, pat, k)
    THEN CHOOSE k \in 1..Len(s) :
            OccursAt(s, pat, k) /\ \A m \in 1..(k - 1) : ~OccursAt(s, pat, m)
    ELSE 0

\* re.split(pat, s, 1), pat a literal
SplitOnce(s, pat) ==
    LET k == Find(s, pat)
    IN  IF k = 0 THEN <<s>>
        ELSE <<SubSeq(s, 1, k - 1), SubSeq(s, k + Len(pat), Len(s))>>

\* re.split(pat, s), pat a literal
RECURSIVE SplitAll(_, _)
SplitAll(s, pat) ==
    LET k == Find(s, pat)
    IN  IF k = 0 THEN <<s>>
        ELSE <<SubSeq(s, 1, k - 1)>> \o SplitAll(SubSeq(s, k + Len(pat), Len(s)), pat)

\* s.strip()
RECURSIVE Strip(_)
Strip(s) ==
    IF s = <<>> THEN s
    ELSE IF Head(s) = " " THEN Strip(Tail(s))
    ELSE IF s[Len(s)] = " " THEN Strip(SubSeq(s, 1, Len(s) - 1))
    ELSE s

\* re.sub(" \+$", "", x)
DropTrailingPlus(x) ==
    IF Len(x) >= 2 /\ x[Len(x) - 1] = " " /\ x[Len(x)] = "+"
    THEN SubSeq(x, 1, Len(x) - 2)
    ELSE x

\* helpers_brenda.py:218-223: the names of one side
SideNames(side) ==
    LET parts == SplitAll(side, <<" ", "+", " ">>)
        kept  == SelectSeq(parts, LAMBDA part : Strip(part) # <<>>)
    IN  [j \in 1..Len(kept) |-> DropTrailingPlus(Strip(kept[j]))]

\* the number of leading digits of x
RECURSIVE LeadingDigits(_)
LeadingDigits(x) ==
    IF x # <<>> /\ Head(x) \in Digits THEN 1 + LeadingDigits(Tail(x)) ELSE 0

\* int(num) of the first n characters of x
RECURSIVE IntOf(_, _)
IntOf(x, n) == IF n = 0 THEN 0 ELSE 10 * IntOf(x, n - 1) + DigitValue(x[n])

\* re.search("^\d+ ", x)
HasCount(x) ==
    LET n == LeadingDigits(x) IN n > 0 /\ n < Len(x) /\ x[n + 1] = " "

\* helpers_brenda.py:225-245: "2 x" becomes x, x
RECURSIVE Repeated(_)
Repeated(names) ==
    IF names = <<>> THEN <<>>
    ELSE LET x == Head(names)
             n == LeadingDigits(x)
         IN  (IF HasCount(x)
              THEN [j \in 1..IntOf(x, n) |-> SubSeq(x, n + 2, Len(x))]
              ELSE <<x>>) \o Repeated(Tail(names))

\* The cofactor spellings of a description, each one character of a text:
\* 'NAD(P)', 'NADP' and 'NAD'. 'more' is one character too. The letters and
\* brackets they are spelled with are no characters of their own, so 'NAD'
\* followed by a blank is the only spelling lines 153-207 find in a text.
NAD_P == "NAD(P)"

NADP == "NADP"

NAD == "NAD"

More == "more"

\* s.replace(pat, new)
RECURSIVE Replace(_, _, _)
Replace(s, pat, new) ==
    LET k == Find(s, pat)
    IN  IF k = 0 THEN s
        ELSE SubSeq(s, 1, k - 1) \o new
             \o Replace(SubSeq(s, k + Len(pat), Len(s)), pat, new)

\* s.count(pat)
RECURSIVE Count(_, _)
Count(s, pat) ==
    LET k == Find(s, pat)
    IN  IF k = 0 THEN 0
        ELSE 1 + Count(SubSeq(s, k + Len(pat), Len(s)), pat)

\* helpers_brenda.py:180-181, the one of the fixes of lines 153-207 whose
\* spelling a text of the model can have
FixNAD(rxn) ==
    IF Find(rxn, <<NAD, " ">>) # 0
    THEN Replace(rxn, <<NAD, " ">>, <<NAD, "+", " ">>)
    ELSE rxn

\* helpers_brenda.py:127-255
extract_reaction(rxn) ==
    LET fixed      == FixNAD(rxn)
        split_prod == SplitOnce(fixed, <<" ", "=", " ">>)
        substrates == split_prod[1]
        products   == IF Len(split_prod) = 1 THEN <<>> ELSE split_prod[2]
    IN  [SUBSTRATES |-> Repeated(SideNames(substrates)),
         PRODUCTS   |-> Repeated(SideNames(products)),
         REVERSIBLE |-> "?",
         RXN_TEXT   |-> fixed]

\* "x in list" for a list of texts
InList(x, list) == \E j \in DOMAIN list : list[j] = x

\* helpers_brenda.py:429 and 454: the parses that give no record
Skipped(r) ==
    \/ InList(<<"?">>, r.SUBSTRATES)
    \/ InList(<<"?">>, r.PRODUCTS)
    \/ InList(<<More>>, r.SUBSTRATES)

\* the organism numbers parse_protein has filled enzymes for
Enzymes == {"1"}

\* helpers_brenda.py:456-469: the record of one organism number
Record(r, orig_desc, is_natural, org_num) ==
    [SUBSTRATES    |-> r.SUBSTRATES,
     PRODUCTS      |-> r.PRODUCTS,
     REVERSIBLE    |-> r.REVERSIBLE,
     RXN_TEXT      |-> r.RXN_TEXT,
     ORIG_RXN_TEXT |-> orig_desc,
     EC_NUM        |-> "ec_num",
     NATURAL       |-> is_natural,
     ORGANISM      |-> IF org_num \in Enzymes THEN org_num ELSE NoneStr,
     PROTEIN_REFS  |-> IF org_num \in Enzymes THEN <<"ref_id">> ELSE <<>>,
     PROTEIN_DB    |-> IF org_num \in Enzymes THEN "uniprot" ELSE NoneStr]

\* helpers_brenda.py:425: the description is split into two reactions
TwoVariants(d) == Count(d, <<NAD_P>>) = 2

\* helpers_brenda.py:426: desc after the replacement of the two-variant branch
AfterSplit(d) == IF TwoVariants(d) THEN Replace(d, <<NAD_P>>, <<NADP>>) ELSE d

\* helpers_brenda.py:447-451: a single 'NAD(P)' takes the spelling of the
\* other cofactor of the text
AfterSingle(d) ==
    IF Count(d, <<NAD_P>>) = 1
    THEN IF Find(d, <<NADP>>) # 0
         THEN Replace(d, <<NAD_P>>, <<NADP>>)
         ELSE Replace(d, <<NAD_P>>, <<NAD>>)
    ELSE d

\* helpers_brenda.py:434-444 and 458-469: one record per element of org_nums
Records(r, orig_desc, is_natural, orgs) ==
    [j \in 1..Len(orgs) |-> Record(r, orig_desc, is_natural, orgs[j])]

\* helpers_brenda.py:421-469 for one line of a SP or NSP section, from the
\* organism numbers and the description extract_orgs_desc gave
ProcessLine ==
    /\ pc = "line"
    /\ LET two   == TwoVariants(desc)
           desc1 == AfterSplit(desc)
           desc2 == extract_reaction(Replace(desc1, <<NADP>>, <<NAD>>))
           r     == extract_reaction(AfterSingle(desc1))
           first == IF two THEN Records(desc2, desc, natural, org_nums) ELSE <<>>
       IN  reactions' =
              IF two /\ Skipped(desc2) THEN reactions
              ELSE IF Skipped(r) THEN reactions \o first
              ELSE reactions \o first \o Records(r, desc, natural, org_nums)
    /\ pc' = "parsed"
    /\ UNCHANGED <<idx, df, mapVars, initialVars, desc, org_nums, natural>>
    /\ UNCHANGED brendaVars

\* the descriptions: extract_orgs_desc returns them stripped; a reaction line
\* has some text
Descriptions ==
    {s \in SeqsUpTo(Alphabet, MaxDesc) : s # <<>> /\ Strip(s) = s}

InitParse ==
    /\ IdleMap /\ IdleInitial /\ IdleBrenda
    /\ pc = "line" /\ idx = 1 /\ df = <<>>
    /\ desc \in Descriptions
    /\ org_nums \in {<<>>, <<"1">>, <<"1", "2">>}
    /\ natural \in BOOLEAN
    /\ reactions = <<>>

SpecParse == InitParse /\ [][ProcessLine]_vars

\* C9 (as claimed): every record process_entry emits has a non-empty
\* SUBSTRATES list and a non-empty PRODUCTS list.
C9_NonEmptySides ==
    \A j \in DOMAIN reactions :
        reactions[j].SUBSTRATES # <<>> /\ reactions[j].PRODUCTS # <<>>

(* helpers_brenda: the lines of a SP or NSP section, with their organism     *)
(* numbers and cofactor spellings                                             *)

MaxWords == 4

\* the characters LIST_SPLIT_RE splits the organism numbers at
Separators == {",", " "}

\* re.split(LIST_SPLIT_RE, s): every comma and every blank ends a piece
RECURSIVE SplitList(_)
SplitList(s) ==
    IF \E k \in 1..Len(s) : s[k] \in Separators
    THEN LET k == CHOOSE k \in 1..Len(s) :
                     s[k] \in Separators /\ \A m \in 1..(k - 1) : s[m] \notin Separators
         IN  <<SubSeq(s, 1, k - 1)>> \o SplitList(SubSeq(s, k + 1, Len(s)))
    ELSE <<s>>

\* helpers_brenda.py:60-66: the orgs of a line that starts with '#', from the
\* text between its two '#'. A number is one character of that text, and a
\* piece is a number or empty.
OrgNums(inner) ==
    LET parts == SplitList(inner)
    IN  [j \in 1..Len(parts) |-> IF parts[j] = <<>> THEN "" ELSE parts[j][1]]

\* what ORG_RE matches between the two '#': numbers, apart by a comma, or by a
\* comma and a blank in the lines annotated with spaces
OrgLists == {<<"1">>, <<"1", ",", "2">>, <<"1", ",", " ", "2">>}

\* the words of a description
Words == {"a", "?", More, NAD_P, "=", "+"}

\* the text of some words, one blank between two of them
RECURSIVE Join(_)
Join(ws) ==
    IF Len(ws) = 1 THEN <<ws[1]>> ELSE <<ws[1], " ">> \o Join(Tail(ws))

LineDescriptions == {Join(ws) : ws \in SeqsUpTo(Words, MaxWords) \ {<<>>}}

\* a line of a section: no leading '#...#' gives no orgs (line 70)
InitLine ==
    /\ IdleMap /\ IdleInitial /\ IdleBrenda
    /\ pc = "line" /\ idx = 1 /\ df = <<>>
    /\ desc \in LineDescriptions
    /\ org_nums \in {<<>>} \cup {OrgNums(inner) : inner \in OrgLists}
    /\ natural \in BOOLEAN
    /\ reactions = <<>>

SpecLine == InitLine /\ [][ProcessLine]_vars

\* the organism numbers listed on the line
Listed == SelectSeq(org_nums, LAMBDA o : o # "")

\* C11 (as claimed): a line whose parsed substrates have '?' or 'more', or
\* whose parsed products have '?', gives no record; any other line gives one
\* record per organism number listed on it, two when 'NAD(P)' occurs exactly
\* twice in the description; every record has the unmodified description as
\* ORIG_RXN_TEXT, and NATURAL true exactly for the lines of the natural section.
C11_RecordsPerLine ==
    pc = "parsed" =>
        LET r   == extract_reaction(desc)
            per == IF Count(desc, <<NAD_P>>) = 2 THEN 2 ELSE 1
        IN  IF \/ InList(<<"?">>, r.SUBSTRATES) \/ InList(<<More>>, r.SUBSTRATES)
               \/ InList(<<"?">>, r.PRODUCTS)
            THEN reactions = <<>>
            ELSE /\ Len(reactions) = per * Len(Listed)
                 /\ \A j \in DOMAIN reactions :
                       /\ reactions[j].ORIG_RXN_TEXT = desc
                       /\ reactions[j].NATURAL = natural

----------------------------------------------------------------------------
(* helpers_brenda: the line-buffer loop of parse_brenda *)

MaxLines == 5

\* A line of the file is one of three kinds: "entry" begins with '///',
\* "inner" has '///' further in, "text" has no '///'. A line is never the
\* empty string: fp.readline() gives '' at the end of the file only.
LineKinds == {"entry", "inner", "text"}

Files == SeqsUpTo(LineKinds, MaxLines)

\* the test of line 495 without the lines that have '///' further in
HasSlashes_AtStart(kind) == kind = "entry"

\* helpers_brenda.py:495: r"///" in new_line
HasSlashes(kind) == kind \in {"entry", "inner"}

\* helpers_brenda.py:392-394: "///" == brenda_entry[:3], the buffer being the
\* text of its lines in order
BeginsWithSlashes(file, block) == file[block[1]] = "entry"

\* helpers_brenda.py:381-470: what process_entry does with a buffer. Without
\* the leading '///' it returns None (line 394). With it, it returns None for
\* a transferred or deleted entry (lines 398-400) or the list of its
\* reactions, empty or not (line 470), or it raises where the text lacks the
\* lines, tabs or tags lines 397-407 index.
ProcessEntryOutcomes(file, block) ==
    IF BeginsWithSlashes(file, block)
    THEN {"None", "empty", "some", "raise"}
    ELSE {"None"}

\* the reactions of a buffer, as one row that names the buffer
ReactionsOf(block) == <<[entry |-> block]>>

\* helpers_brenda.py:491-492: the first line goes to the empty buffer untested
ReadFirst ==
    /\ pc = "brenda" /\ new_line <= Len(lines)
    /\ buff = <<>>
    /\ buff' = <<new_line>>
    /\ new_line' = new_line + 1
    /\ UNCHANGED <<pc, idx, df, mapVars, initialVars, parseVars, lines, passed>>

\* helpers_brenda.py:495-502: a line with '///' hands the buffer to
\* process_entry and starts the next buffer; an exception of process_entry
\* leaves parse_brenda
ReadHeader ==
    /\ pc = "brenda" /\ new_line <= Len(lines)
    /\ buff # <<>>
    /\ HasSlashes(lines[new_line])
    /\ passed' = Append(passed, buff)
    /\ \E outcome \in ProcessEntryOutcomes(lines, buff) :
          IF outcome = "raise"
          THEN pc' = "raised" /\ UNCHANGED <<df, buff, new_line>>
          ELSE /\ df' = IF outcome = "some" THEN df \o ReactionsOf(buff) ELSE df
               /\ buff' = <<new_line>>
               /\ new_line' = new_line + 1
               /\ pc' = pc
    /\ UNCHANGED <<idx, mapVars, initialVars, parseVars, lines>>

\* helpers_brenda.py:503-504: any other line joins the buffer
ReadOther ==
    /\ pc = "brenda" /\ new_line <= Len(lines)
    /\ buff # <<>>
    /\ ~HasSlashes(lines[new_line])
    /\ buff' = buff \o <<new_line>>
    /\ new_line' = new_line + 1
    /\ UNCHANGED <<pc, idx, df, mapVars, initialVars, parseVars, lines, passed>>

\* helpers_brenda.py:490: readline gave '', the loop is left
EndOfFile ==
    /\ pc = "brenda" /\ new_line = Len(lines) + 1
    /\ pc' = "read"
    /\ UNCHANGED <<idx, df, mapVars, initialVars, parseVars, brendaVars>>

InitBrenda ==
    /\ IdleMap /\ IdleInitial /\ IdleParse
    /\ pc = "brenda" /\ idx = 1 /\ df = <<>>
    /\ lines \in Files
    /\ new_line = 1
    /\ buff = <<>>
    /\ passed = <<>>

NextBrenda == ReadFirst \/ ReadHeader \/ ReadOther \/ EndOfFile

SpecBrenda == InitBrenda /\ [][NextBrenda]_vars

\* the lines of the file that contain '///'
SlashLines == {k \in 1..Len(lines) : lines[k] \in {"entry", "inner"}}

\* the block from line k to just before the next line that contains '///'
BlockFrom(k) ==
    LET after == {m \in SlashLines : m > k}
        stop  == IF after = {} THEN Len(lines)
                 ELSE (CHOOSE m \in after : \A n \in after : m <= n) - 1
    IN  [j \in 1..(stop - k + 1) |-> k + j - 1]

\* the blocks that end just before a line containing '///', in file order
RECURSIVE EndedBlocks(_)
EndedBlocks(k) ==
    IF k > Len(lines) \/ {m \in SlashLines : m > k} = {} THEN <<>>
    ELSE <<BlockFrom(k)>> \o EndedBlocks(k + Len(BlockFrom(k)))

\* C12: the buffers handed to process_entry are, each once and in file
\* order, the blocks that end just before a line containing '///': at every
\* point of the loop the ones whose closing line has been read, and all of
\* them once the file is read. So no line is handed over twice and the block
\* from the last line containing '///' to the end of the file is never
\* handed over. A block gives reactions only if it begins with '///'; the
\* block before the first such line is handed over and gives none.
C12_BlocksPassedOnce ==
    LET ended == EndedBlocks(1)
        read  == {k \in SlashLines : 1 < k /\ k < new_line}
    IN  /\ Len(passed) <= Len(ended)
        /\ \A j \in DOMAIN passed : passed[j] = ended[j]
        /\ pc = "brenda" => Len(passed) = Cardinality(read)
        /\ pc = "read" => passed = ended
        /\ \A i, j \in DOMAIN passed :
              i # j => Range(passed[i]) \cap Range(passed[j]) = {}
        /\ \A j \in DOMAIN passed :
              Len(lines) \notin Range(passed[j])
        /\ \A j \in DOMAIN df : BeginsWithSlashes(lines, df[j].entry)
        /\ (pc = "read" /\ SlashLines # {} /\ 1 \notin SlashLines) =>
              /\ passed # <<>> /\ passed[1][1] = 1
              /\ \A j \in DOMAIN df : df[j].entry # passed[1]

\* a file read to its end: text before the first '///' line, two entries
\* handed over of which one gave reactions, and a last entry left in the buffer
C12_Witness ==
    /\ pc = "read"
    /\ lines # <<>> /\ lines[1] = "text"
    /\ Len(passed) >= 3
    /\ df # <<>>
    /\ Len(buff) >= 2

====
